---- MODULE Spec2Model ----
(***************************************************************************)
(* Outbox engine of docker-node-kafka-postgres.                            *)
(*                                                                         *)
(*   producer-api/src/index.js  POST /messages (submit), the retry sweep   *)
(*                              processarEventosPendientes, initKafka,     *)
(*                              start()                                    *)
(*   consumer-service/index.js  initKafka, consumer.run eachMessage (the   *)
(*                              file is the second half of src/readme.md)  *)
(*                                                                         *)
(* Node runs every handler on one thread, so a handler is atomic between   *)
(* two awaits: each action below is the code between two awaits of one     *)
(* handler, together with the storage or broker call it awaits.            *)
(*                                                                         *)
(* Storage is PostgreSQL.  A statement fails when storage is down at the   *)
(* moment it runs.  The submit handler runs on one client inside           *)
(* BEGIN..COMMIT: its row is invisible to every other session until        *)
(* COMMIT, and after a failed statement every later statement of the       *)
(* transaction fails too ("current transaction is aborted"), so a failure  *)
(* inside the transaction always ends in the handler's outer catch.  The   *)
(* sweep and the consumer use pool.query: every statement is its own       *)
(* transaction.                                                            *)
(***************************************************************************)
EXTENDS Integers, Sequences, FiniteSets, TLC

VARIABLES
  eventos,            \* committed rows of table eventos: id -> row
  seq,                \* next value of eventos.id (SERIAL; never rolled back)
  kafkaUp,            \* the broker accepts producer.send
  dbUp,               \* PostgreSQL executes statements
  log,                \* topic 'messages': the envelopes accepted so far
  pc,                 \* position of each POST /messages call
  body,               \* req.body.content of the call
  txn,                \* row written by the call's open transaction
  resp,               \* response sent by the call
  spc,                \* position of each running sweep
  rows,               \* result.rows still to be handled by the sweep
  eventoIdColumn,     \* table messages has the column evento_id
  messages,           \* rows of table messages, in insertion order
  offset,             \* position of the consumer group in the topic
  messagesProcessed,
  messagesErrors,
  boot,               \* initKafka of each service: its loop and its outcome
  life                \* the producer process: up, or how far its SIGTERM
                      \* handler has come

vars == <<eventos, seq, kafkaUp, dbUp, log, pc, body, txn, resp, spc, rows,
          eventoIdColumn, messages, offset, messagesProcessed, messagesErrors,
          boot, life>>

----------------------------------------------------------------------------
(* Bounds *)

NumCallers == 2       \* POST /messages calls in flight at the same time
NumSweeps  == 2       \* sweeps in flight at the same time
MaxEvents  == 2       \* values drawn from the id sequence
MaxLog     == 2       \* envelopes the topic holds
MaxSeeded  == 11      \* events the store holds before a sweep is watched
MaxLate    == 1       \* events committed while a backlog is being swept

Callers == 1..NumCallers
Sweeps  == 1..NumSweeps
Bodies  == {"", "a"}  \* req.body.content; "" stands for empty or missing

Services == {"producer", "consumer"}

(* Program constants *)

MaxIntentos == 3      \* WHERE ... intentos < 3
BatchLimit  == 10     \* LIMIT 10
MaxRetries  == 10     \* const maxRetries = 10

NULL     == "NULL"
KafkaErr == "KafkaErr"   \* err.message of a rejected producer.send
DbErr    == "DbErr"      \* err.message of a rejected query

----------------------------------------------------------------------------
(* Table eventos *)

NoRow == [id |-> 0, content |-> "", procesado |-> "P", intentos |-> 0,
          error_message |-> NULL, created_at |-> 0]

\* INSERT INTO eventos (content, procesado) VALUES ($1, 'P')
NewRow(id, content, now) ==
  [id |-> id, content |-> content, procesado |-> "P", intentos |-> 0,
   error_message |-> NULL, created_at |-> now]

\* the table as the other sessions see it after an INSERT made between BEGIN
\* and COMMIT: the new row is not in it
Autocommit(evs, row) == (row.id :> row) @@ evs
InTransaction(evs, row) == evs

\* submit: UPDATE eventos SET procesado = 'E' WHERE id = $1
MarkSentKeepsP(row) == row
MarkSent(row) == [row EXCEPT !.procesado = "E"]

\* submit: UPDATE eventos SET procesado = 'X', intentos = 1, error_message = $1
MarkErrorNoCount(row, msg) ==
  [row EXCEPT !.procesado = "X", !.error_message = msg]
MarkError(row, msg) ==
  [row EXCEPT !.procesado = "X", !.intentos = 1, !.error_message = msg]

\* sweep: UPDATE eventos SET procesado = 'E', error_message = NULL WHERE id = $1
RetrySentKeepsError(evs, id) == [evs EXCEPT ![id].procesado = "E"]
RetrySent(evs, id) ==
  [evs EXCEPT ![id].procesado = "E", ![id].error_message = NULL]

\* sweep: UPDATE eventos SET procesado = 'X', intentos = intentos + 1,
\*        error_message = $1 WHERE id = $2
RetryErrorEveryRow(evs, id, msg) ==
  [i \in DOMAIN evs |->
     [evs[i] EXCEPT !.procesado = "X", !.intentos = @ + 1,
                    !.error_message = msg]]
RetryErrorCountsDown(evs, id, msg) ==
  [evs EXCEPT ![id].procesado = "X", ![id].intentos = @ - 1,
              ![id].error_message = msg]
RetryError(evs, id, msg) ==
  [evs EXCEPT ![id].procesado = "X", ![id].intentos = @ + 1,
              ![id].error_message = msg]

\* WHERE procesado IN ('P', 'X') AND intentos < 3
EligibleOnce(evs) ==
  {i \in DOMAIN evs : evs[i].procesado \in {"P", "X"}
                      /\ evs[i].intentos < MaxIntentos - 1}
Eligible(evs) ==
  {i \in DOMAIN evs : evs[i].procesado \in {"P", "X"}
                      /\ evs[i].intentos < MaxIntentos}

\* ORDER BY created_at ASC: the row at place k is the one with k - 1 older
\* rows before it (rows with the same created_at are taken by id)
Older(evs, i, j) ==
  \/ evs[i].created_at < evs[j].created_at
  \/ evs[i].created_at = evs[j].created_at /\ i < j

OrderByCreated(evs, ids) ==
  IF ids = {} THEN <<>>
  ELSE [k \in 1..Cardinality(ids) |->
          LET nth == CHOOSE i \in ids :
                       Cardinality({j \in ids : Older(evs, j, i)}) = k - 1
          IN  [id |-> nth, content |-> evs[nth].content]]

\* LIMIT 10
NoLimit(s, n) == s
Limit(s, n) == IF Len(s) <= n THEN s ELSE SubSeq(s, 1, n)

\* SELECT id, content FROM eventos WHERE ... ORDER BY created_at ASC LIMIT 10
SelectPendientes(evs) == Limit(OrderByCreated(evs, Eligible(evs)), BatchLimit)

----------------------------------------------------------------------------
(* Responses of POST /messages *)

NoResp == [status |-> 0, evento_id |-> 0, estado |-> "-"]

\* res.status(400).json({ error: 'El campo content es requerido' })
BadRequest == [status |-> 400, evento_id |-> 0, estado |-> "-"]

\* res.status(500).json({ error: err.message })
ServerErrorAsSuccess == [status |-> 200, evento_id |-> 0, estado |-> "E"]
ServerError == [status |-> 500, evento_id |-> 0, estado |-> "-"]

\* res.json({ success: true, evento_id, estado: 'E', ... })
Enviado(id) == [status |-> 200, evento_id |-> id, estado |-> "E"]

\* res.status(202).json({ success: true, evento_id, estado: 'X', ... })
Aceptado(id) == [status |-> 202, evento_id |-> id, estado |-> "X"]

Success(r) == r.status \in {200, 202}

\* if (!content)
MissingNever(content) == FALSE
Missing(content) == content = ""

\* value: JSON.stringify({ evento_id, content, timestamp })
EnvelopeOfIdAlone(id, content) == [evento_id |-> id, content |-> ""]
Envelope(id, content) == [evento_id |-> id, content |-> content]

----------------------------------------------------------------------------
(* initKafka *)

\* a service whose start() has just called initKafka: let i = 0
Booting == [st |-> "try", i |-> 0, tries |-> 0, ok |-> FALSE]

\* a service whose first connection attempt succeeded
Connected == [st |-> "returned", i |-> 0, tries |-> 1, ok |-> TRUE]

\* await initKafka() is over: start() goes on to setInterval and app.listen
StartsAtOnce(v) == TRUE
Running(v) == boot[v].st = "returned"

\* process.on('SIGTERM') of the producer: producer.disconnect(), then
\* pool.end(), then process.exit(0).  After disconnect a send is rejected;
\* after pool.end() pool.query and pool.connect are rejected, while a client
\* that is checked out goes on working until it is released
ProducerConnected == life = "up"
PoolOpen == life \in {"up", "disconnected"}
Alive == life # "exited"

\* for (let i = 0; i < maxRetries; i++)
InLoop(i) == i < MaxRetries

\* if (i < maxRetries - 1): wait retryDelay and go round again; else throw
RetryAlways(i) == TRUE
Retry(i) == i < MaxRetries - 1

----------------------------------------------------------------------------
\* initDB: the two CREATE TABLE IF NOT EXISTS give table messages the columns
\* id, content and created_at.  The DO block that would add evento_id opens
\* with a single $, which PostgreSQL rejects; initDB catches the error and
\* only logs it.  The column is there exactly if the database had it before.
InitDB(hadEventoId) == hadEventoId

Init ==
  /\ eventos = << >>
  /\ seq = 1
  /\ kafkaUp = TRUE
  /\ dbUp = TRUE
  /\ log = << >>
  /\ pc = [c \in Callers |-> "idle"]
  /\ body = [c \in Callers |-> ""]
  /\ txn = [c \in Callers |-> NoRow]
  /\ resp = [c \in Callers |-> NoResp]
  /\ spc = [s \in Sweeps |-> "idle"]
  /\ rows = [s \in Sweeps |-> << >>]
  /\ \E hadEventoId \in BOOLEAN : eventoIdColumn = InitDB(hadEventoId)
  /\ messages = << >>
  /\ offset = 0
  /\ messagesProcessed = 0
  /\ messagesErrors = 0
  /\ life = "up"
  /\ boot = [v \in Services |-> Connected]

envVars      == <<kafkaUp, dbUp>>
producerVars == <<pc, body, txn, resp>>
sweepVars    == <<spc, rows>>
consumerVars == <<eventoIdColumn, messages, offset, messagesProcessed,
                  messagesErrors>>

----------------------------------------------------------------------------
(* The broker and the storage become unreachable or reachable again *)

KafkaStops ==
  /\ kafkaUp
  /\ kafkaUp' = FALSE
  /\ UNCHANGED <<boot, life, eventos, seq, dbUp, log, producerVars, sweepVars,
                 consumerVars>>

KafkaStarts ==
  /\ ~kafkaUp
  /\ kafkaUp' = TRUE
  /\ UNCHANGED <<boot, life, eventos, seq, dbUp, log, producerVars, sweepVars,
                 consumerVars>>

DbStops ==
  /\ dbUp
  /\ dbUp' = FALSE
  /\ UNCHANGED <<boot, life, eventos, seq, kafkaUp, log, producerVars, sweepVars,
                 consumerVars>>

DbStarts ==
  /\ ~dbUp
  /\ dbUp' = TRUE
  /\ UNCHANGED <<boot, life, eventos, seq, kafkaUp, log, producerVars, sweepVars,
                 consumerVars>>

----------------------------------------------------------------------------
(* POST /messages *)

\* the outer catch: ROLLBACK, then 500
Fail(c) ==
  /\ pc' = [pc EXCEPT ![c] = "responded"]
  /\ resp' = [resp EXCEPT ![c] = ServerError]

\* a request arrives.  Without content: 400.  With content: BEGIN, then
\* INSERT INTO eventos ... RETURNING id.  created_at is CURRENT_TIMESTAMP, the
\* time of the BEGIN; the two statements are taken in one step, so it grows
\* with the id.
Request(c, content) ==
  /\ Running("producer")
  /\ PoolOpen
  /\ pc[c] = "idle"
  /\ \A d \in Callers : d < c => pc[d] # "idle"
  /\ body' = [body EXCEPT ![c] = content]
  /\ IF Missing(content)
       THEN /\ pc' = [pc EXCEPT ![c] = "responded"]
            /\ resp' = [resp EXCEPT ![c] = BadRequest]
            /\ UNCHANGED <<eventos, txn, seq>>
     ELSE IF dbUp
       THEN /\ seq <= MaxEvents
            /\ txn' = [txn EXCEPT ![c] = NewRow(seq, content, seq)]
            /\ eventos' = InTransaction(eventos, NewRow(seq, content, seq))
            /\ seq' = seq + 1
            /\ pc' = [pc EXCEPT ![c] = "inserted"]
            /\ UNCHANGED resp
       ELSE /\ Fail(c)
            /\ UNCHANGED <<eventos, txn, seq>>
  /\ UNCHANGED <<boot, life, envVars, log, sweepVars, consumerVars>>

SubmitInsert(c) == \E content \in Bodies : Request(c, content)

\* producer.send of the envelope of the new event
SubmitSend(c) ==
  /\ Alive
  /\ pc[c] = "inserted"
  /\ IF kafkaUp /\ ProducerConnected
       THEN /\ Len(log) < MaxLog
            /\ log' = Append(log, Envelope(txn[c].id, body[c]))
            /\ pc' = [pc EXCEPT ![c] = "published"]
       ELSE /\ pc' = [pc EXCEPT ![c] = "refused"]
            /\ UNCHANGED log
  /\ UNCHANGED <<boot, life, eventos, seq, envVars, body, txn, resp, sweepVars,
                 consumerVars>>

\* the UPDATE that records the outcome of the send.  When the UPDATE to 'E'
\* fails, the inner catch runs the UPDATE to 'X' in the aborted transaction,
\* which fails too and lands in the outer catch.
SubmitUpdate(c) ==
  /\ Alive
  /\ pc[c] \in {"published", "refused"}
  /\ IF dbUp
       THEN /\ txn' = [txn EXCEPT ![c] = IF pc[c] = "published"
                                           THEN MarkSent(@)
                                           ELSE MarkError(@, KafkaErr)]
            /\ pc' = [pc EXCEPT ![c] = IF pc[c] = "published" THEN "markedE"
                                                              ELSE "markedX"]
            /\ UNCHANGED resp
       ELSE /\ Fail(c)
            /\ UNCHANGED txn
  /\ UNCHANGED <<boot, life, eventos, seq, envVars, log, body, sweepVars, consumerVars>>

\* COMMIT, then the response.  A failed COMMIT lands in the outer catch like
\* a failed UPDATE.
SubmitCommit(c) ==
  /\ Alive
  /\ pc[c] \in {"markedE", "markedX"}
  /\ IF dbUp
       THEN /\ eventos' = (txn[c].id :> txn[c]) @@ eventos
            /\ pc' = [pc EXCEPT ![c] = "responded"]
            /\ resp' = [resp EXCEPT ![c] = IF pc[c] = "markedE"
                                             THEN Enviado(txn[c].id)
                                             ELSE Aceptado(txn[c].id)]
       ELSE /\ Fail(c)
            /\ UNCHANGED eventos
  /\ UNCHANGED <<boot, life, seq, envVars, log, body, txn, sweepVars, consumerVars>>

\* finally { client.release() }: the call is over
SubmitRelease(c) ==
  /\ Alive
  /\ pc[c] = "responded"
  /\ pc' = [pc EXCEPT ![c] = "idle"]
  /\ body' = [body EXCEPT ![c] = ""]
  /\ txn' = [txn EXCEPT ![c] = NoRow]
  /\ resp' = [resp EXCEPT ![c] = NoResp]
  /\ UNCHANGED <<boot, life, eventos, seq, envVars, log, sweepVars, consumerVars>>

----------------------------------------------------------------------------
(* processarEventosPendientes, started by setInterval every 10 s whether   *)
(* or not the sweep before it has finished                                 *)

\* the timer fires: the SELECT.  A failed SELECT or an empty result ends the
\* sweep at once and leaves no trace.
SweepStart(s) ==
  /\ Running("producer")
  /\ spc[s] = "idle"
  /\ \A t \in Sweeps : t < s => spc[t] # "idle"
  /\ dbUp /\ PoolOpen
  /\ SelectPendientes(eventos) # << >>
  /\ rows' = [rows EXCEPT ![s] = SelectPendientes(eventos)]
  /\ spc' = [spc EXCEPT ![s] = "send"]
  /\ UNCHANGED <<boot, life, eventos, seq, envVars, log, producerVars, consumerVars>>

\* producer.send of the envelope of the next selected event
SweepSend(s) ==
  /\ Alive
  /\ spc[s] = "send"
  /\ IF kafkaUp /\ ProducerConnected
       THEN /\ Len(log) < MaxLog
            /\ log' = Append(log, Envelope(Head(rows[s]).id,
                                           Head(rows[s]).content))
            /\ spc' = [spc EXCEPT ![s] = "sent"]
       ELSE /\ spc' = [spc EXCEPT ![s] = "sendFailed"]
            /\ UNCHANGED log
  /\ UNCHANGED <<boot, life, eventos, seq, envVars, rows, producerVars, consumerVars>>

\* the rows the sweep still handles after an error has reached the catch
\* around the for loop: none
CaughtInLoop(rs) == Tail(rs)
OuterCatch(rs) == << >>

\* the loop goes on to the next row, or the sweep ends
NextRow(s) ==
  /\ rows' = [rows EXCEPT ![s] = Tail(@)]
  /\ spc' = [spc EXCEPT ![s] = IF Tail(rows[s]) = << >> THEN "idle"
                                                       ELSE "send"]

\* the UPDATE to 'E' after an accepted send.  When it fails, the error is
\* caught by the same catch as a failed send.
SweepMarkSent(s) ==
  /\ Alive
  /\ spc[s] = "sent"
  /\ IF dbUp /\ PoolOpen
       THEN /\ eventos' = RetrySent(eventos, Head(rows[s]).id)
            /\ NextRow(s)
       ELSE /\ spc' = [spc EXCEPT ![s] = "updateFailed"]
            /\ UNCHANGED <<eventos, rows>>
  /\ UNCHANGED <<boot, life, seq, envVars, log, producerVars, consumerVars>>

\* the catch: the UPDATE to 'X'.  When it fails, the error lands in the outer
\* catch and the sweep ends; the rows left are dropped.
SweepMarkError(s) ==
  /\ Alive
  /\ spc[s] \in {"sendFailed", "updateFailed"}
  /\ IF dbUp /\ PoolOpen
       THEN /\ eventos' = RetryError(eventos, Head(rows[s]).id,
                                     IF spc[s] = "sendFailed" THEN KafkaErr
                                                              ELSE DbErr)
            /\ NextRow(s)
       ELSE /\ rows' = [rows EXCEPT ![s] = OuterCatch(@)]
            /\ spc' = [spc EXCEPT ![s] = IF OuterCatch(rows[s]) = << >>
                                            THEN "idle" ELSE "send"]
            /\ UNCHANGED eventos
  /\ UNCHANGED <<boot, life, seq, envVars, log, producerVars, consumerVars>>

----------------------------------------------------------------------------
(* consumer.run eachMessage *)

\* INSERT INTO messages (content, evento_id) VALUES ($1, $2): a plain insert;
\* the column carries no UNIQUE constraint
InsertNothing(msgs, data) == msgs
InsertMessage(msgs, data) ==
  Append(msgs, [content |-> data.content, evento_id |-> data.evento_id])

\* evento_id INT REFERENCES eventos(id): the foreign key is checked against
\* the committed rows of eventos
ForeignKeyHolds(evs, data) == data.evento_id \in DOMAIN evs

\* one envelope: JSON.parse, the INSERT, and one of the two counters; the
\* handler never throws, so the offset moves on in every case
EachMessage ==
  /\ Running("consumer")
  /\ offset < Len(log)
  /\ offset' = offset + 1
  /\ LET data == log[offset + 1] IN
     IF dbUp /\ eventoIdColumn /\ ForeignKeyHolds(eventos, data)
       THEN /\ messages' = InsertMessage(messages, data)
            /\ messagesProcessed' = messagesProcessed + 1
            /\ UNCHANGED messagesErrors
       ELSE /\ messagesErrors' = messagesErrors + 1
            /\ UNCHANGED <<messages, messagesProcessed>>
  /\ UNCHANGED <<boot, life, eventos, seq, envVars, log, producerVars, sweepVars,
                 eventoIdColumn>>

----------------------------------------------------------------------------
(* initKafka of the producer (index.js) and of the consumer                *)

\* one round of the loop: the connection attempt.  For the consumer the try
\* block is connect, subscribe { fromBeginning: false } and run; the group
\* has no committed offset when it first joins, so it starts at the end of
\* the topic.
ConnectAttempt(v) ==
  /\ boot[v].st = "try"
  /\ IF kafkaUp
       THEN /\ boot' = [boot EXCEPT ![v].st = "returned", ![v].ok = TRUE,
                                     ![v].tries = @ + 1]
            /\ offset' = IF v = "consumer" THEN Len(log) ELSE offset
       ELSE /\ boot' = [boot EXCEPT ![v].tries = @ + 1,
                                     ![v].st = IF Retry(boot[v].i)
                                                 THEN "wait" ELSE "thrown"]
            /\ UNCHANGED offset
  /\ UNCHANGED <<life, eventos, seq, envVars, log, producerVars, sweepVars,
                 eventoIdColumn, messages, messagesProcessed, messagesErrors>>

\* await new Promise(resolve => setTimeout(resolve, retryDelay)); i++ and the
\* loop test.  When the test fails the function returns without an error.
ConnectWait(v) ==
  /\ boot[v].st = "wait"
  /\ boot' = [boot EXCEPT ![v].i = @ + 1,
                          ![v].st = IF InLoop(boot[v].i + 1) THEN "try"
                                                             ELSE "returned"]
  /\ UNCHANGED <<life, eventos, seq, envVars, log, producerVars, sweepVars,
                 consumerVars>>

----------------------------------------------------------------------------
(* process.on('SIGTERM') of the producer.  The handler does not stop the    *)
(* timer or the server and waits for no call and no sweep itself; what is   *)
(* waited for is up to producer.disconnect() and pool.end().                *)

\* the signal arrives: producer.disconnect()
Sigterm ==
  /\ life = "up"
  /\ life' = "disconnected"
  /\ UNCHANGED <<boot, eventos, seq, envVars, log, producerVars, sweepVars,
                 consumerVars>>

\* disconnect() has resolved: pool.end()
PoolEnd ==
  /\ life = "disconnected"
  /\ life' = "ending"
  /\ UNCHANGED <<boot, eventos, seq, envVars, log, producerVars, sweepVars,
                 consumerVars>>

\* pool.end() resolves once every client that was checked out has been
\* released: process.exit(0)
ProcessExit ==
  /\ life = "ending"
  /\ \A c \in Callers : pc[c] = "idle"
  /\ life' = "exited"
  /\ UNCHANGED <<boot, eventos, seq, envVars, log, producerVars, sweepVars,
                 consumerVars>>

----------------------------------------------------------------------------
(* The submit calls alone *)
NextSubmit ==
  \/ KafkaStops
  \/ KafkaStarts
  \/ DbStops
  \/ DbStarts
  \/ \E c \in Callers : SubmitInsert(c)
  \/ \E c \in Callers : SubmitSend(c)
  \/ \E c \in Callers : SubmitUpdate(c)
  \/ \E c \in Callers : SubmitCommit(c)
  \/ \E c \in Callers : SubmitRelease(c)

SpecSubmit == Init /\ [][NextSubmit]_vars

(* The producer: submit calls and retry sweeps *)
NextProducer ==
  \/ NextSubmit
  \/ \E s \in Sweeps : SweepStart(s)
  \/ \E s \in Sweeps : SweepSend(s)
  \/ \E s \in Sweeps : SweepMarkSent(s)
  \/ \E s \in Sweeps : SweepMarkError(s)

SpecProducer == Init /\ [][NextProducer]_vars

(* The producer and the consumer while storage stays up *)
NextDelivery ==
  \/ KafkaStops
  \/ KafkaStarts
  \/ \E c \in Callers : SubmitInsert(c)
  \/ \E c \in Callers : SubmitSend(c)
  \/ \E c \in Callers : SubmitUpdate(c)
  \/ \E c \in Callers : SubmitCommit(c)
  \/ \E c \in Callers : SubmitRelease(c)
  \/ \E s \in Sweeps : SweepStart(s)
  \/ \E s \in Sweeps : SweepSend(s)
  \/ \E s \in Sweeps : SweepMarkSent(s)
  \/ \E s \in Sweeps : SweepMarkError(s)
  \/ EachMessage

SpecDelivery == Init /\ [][NextDelivery]_vars

(* The producer and the consumer *)
Next ==
  \/ NextProducer
  \/ EachMessage

Spec == Init /\ [][Next]_vars

(* One call at a time and two sweeps that may overlap, while storage stays *)
(* up                                                                      *)
TwoSweeps == {s \in Sweeps : s <= 2}

NextOverlap ==
  \/ KafkaStops
  \/ KafkaStarts
  \/ SubmitInsert(1)
  \/ SubmitSend(1)
  \/ SubmitUpdate(1)
  \/ SubmitCommit(1)
  \/ SubmitRelease(1)
  \/ \E s \in TwoSweeps : SweepStart(s)
  \/ \E s \in TwoSweeps : SweepSend(s)
  \/ \E s \in TwoSweeps : SweepMarkSent(s)
  \/ \E s \in TwoSweeps : SweepMarkError(s)

SpecOverlap == Init /\ [][NextOverlap]_vars

(* Concurrent calls and one sweep at a time, while storage stays up *)
NextFresh ==
  \/ KafkaStops
  \/ KafkaStarts
  \/ \E c \in Callers : SubmitInsert(c)
  \/ \E c \in Callers : SubmitSend(c)
  \/ \E c \in Callers : SubmitUpdate(c)
  \/ \E c \in Callers : SubmitCommit(c)
  \/ \E c \in Callers : SubmitRelease(c)
  \/ SweepStart(1)
  \/ SweepSend(1)
  \/ SweepMarkSent(1)
  \/ SweepMarkError(1)

SpecFresh == Init /\ [][NextFresh]_vars

(* One call and one sweep at a time, while broker and storage go down and   *)
(* come back                                                                *)
NextOutage ==
  \/ KafkaStops
  \/ KafkaStarts
  \/ DbStops
  \/ DbStarts
  \/ SubmitInsert(1)
  \/ SubmitSend(1)
  \/ SubmitUpdate(1)
  \/ SubmitCommit(1)
  \/ SubmitRelease(1)
  \/ SweepStart(1)
  \/ SweepSend(1)
  \/ SweepMarkSent(1)
  \/ SweepMarkError(1)

SpecOutage == Init /\ [][NextOutage]_vars

(* The consumer behind one call at a time, while storage goes down and      *)
(* comes back                                                               *)
NextConsume ==
  \/ DbStops
  \/ DbStarts
  \/ SubmitInsert(1)
  \/ SubmitSend(1)
  \/ SubmitUpdate(1)
  \/ SubmitCommit(1)
  \/ SubmitRelease(1)
  \/ EachMessage

SpecConsume == Init /\ [][NextConsume]_vars

(* The producer and the consumer with calls of different content, one call  *)
(* and one sweep at a time, while storage stays up                          *)
Contents == {"a", "b"}

NextContent ==
  \/ KafkaStops
  \/ KafkaStarts
  \/ \E content \in Contents : Request(1, content)
  \/ SubmitSend(1)
  \/ SubmitUpdate(1)
  \/ SubmitCommit(1)
  \/ SubmitRelease(1)
  \/ SweepStart(1)
  \/ SweepSend(1)
  \/ SweepMarkSent(1)
  \/ SweepMarkError(1)
  \/ EachMessage

SpecContent == Init /\ [][NextContent]_vars

(* One call and one sweep at a time and the shutdown of the producer,       *)
(* while storage stays up                                                   *)
NextShutdown ==
  \/ KafkaStops
  \/ KafkaStarts
  \/ SubmitInsert(1)
  \/ SubmitSend(1)
  \/ SubmitUpdate(1)
  \/ SubmitCommit(1)
  \/ SubmitRelease(1)
  \/ SweepStart(1)
  \/ SweepSend(1)
  \/ SweepMarkSent(1)
  \/ SweepMarkError(1)
  \/ Sigterm
  \/ PoolEnd
  \/ ProcessExit

SpecShutdown == Init /\ [][NextShutdown]_vars

(* The producer from the moment start() calls initKafka: the connection     *)
(* attempts, then one call and one sweep at a time                          *)
NextStartup ==
  \/ KafkaStops
  \/ KafkaStarts
  \/ ConnectAttempt("producer")
  \/ ConnectWait("producer")
  \/ SubmitInsert(1)
  \/ SubmitSend(1)
  \/ SubmitUpdate(1)
  \/ SubmitCommit(1)
  \/ SubmitRelease(1)
  \/ SweepStart(1)
  \/ SweepSend(1)
  \/ SweepMarkSent(1)
  \/ SweepMarkError(1)


(* The SELECT of a sweep over a store that earlier calls and sweeps have    *)
(* filled.  An earlier event is left in one of the states the handlers     *)
(* leave behind: X after a failed submit, E, or X with its attempts used   *)
(* up.  created_at is the time of the BEGIN and the id is drawn at the     *)
(* INSERT, so of two concurrent calls the one with the higher id may carry *)
(* the older created_at: every event with an even id does.                 *)
Leftovers == {[procesado |-> "X", intentos |-> 1, error_message |-> KafkaErr],
              [procesado |-> "E", intentos |-> 0, error_message |-> NULL],
              [procesado |-> "X", intentos |-> MaxIntentos,
               error_message |-> KafkaErr]}

BeginTime(id) == IF id % 2 = 0 THEN 2 * id - 3 ELSE 2 * id

SeedEvento ==
  /\ seq <= MaxSeeded
  /\ spc[1] = "idle"
  /\ \E left \in Leftovers :
       eventos' = (seq :> [id |-> seq, content |-> "a",
                           procesado |-> left.procesado,
                           intentos |-> left.intentos,
                           error_message |-> left.error_message,
                           created_at |-> BeginTime(seq)]) @@ eventos
  /\ seq' = seq + 1
  /\ UNCHANGED <<boot, life, envVars, log, producerVars, sweepVars, consumerVars>>

NextSelect ==
  \/ SeedEvento
  \/ SweepStart(1)

SpecSelect == Init /\ [][NextSelect]_vars

(* The sweeps at work on a backlog of one event more than a sweep takes,    *)
(* all left in state X by calls made while the broker was down; the broker *)
(* stays down and storage stays up; the database was a fresh one.  The     *)
(* timer keeps firing, a send settles and a statement returns, hence the   *)
(* weak fairness.                                                          *)
Backlog == BatchLimit + 1

FailedOnce(id) ==
  MarkError(NewRow(id, "a", BeginTime(id)), KafkaErr)

InitBacklog ==
  /\ eventos = [i \in 1..Backlog |-> FailedOnce(i)]
  /\ seq = Backlog + 1
  /\ kafkaUp = FALSE
  /\ dbUp = TRUE
  /\ log = << >>
  /\ pc = [c \in Callers |-> "idle"]
  /\ body = [c \in Callers |-> ""]
  /\ txn = [c \in Callers |-> NoRow]
  /\ resp = [c \in Callers |-> NoResp]
  /\ spc = [s \in Sweeps |-> "idle"]
  /\ rows = [s \in Sweeps |-> << >>]
  /\ eventoIdColumn = InitDB(FALSE)
  /\ messages = << >>
  /\ offset = 0
  /\ messagesProcessed = 0
  /\ messagesErrors = 0
  /\ life = "up"
  /\ boot = [v \in Services |-> Connected]

\* a POST /messages made meanwhile: with the broker down its only effect on
\* the others is its COMMIT, which adds the event in state X
LateEvento ==
  /\ seq <= Backlog + MaxLate
  /\ eventos' = (seq :> FailedOnce(seq)) @@ eventos
  /\ seq' = seq + 1
  /\ UNCHANGED <<boot, life, envVars, log, producerVars, sweepVars, consumerVars>>

NextBacklog ==
  \/ LateEvento
  \/ \E s \in TwoSweeps : SweepStart(s)
  \/ \E s \in TwoSweeps : SweepSend(s)
  \/ \E s \in TwoSweeps : SweepMarkError(s)

SpecBacklog ==
  /\ InitBacklog
  /\ [][NextBacklog]_vars
  /\ \A s \in TwoSweeps : /\ WF_vars(SweepStart(s))
                        /\ WF_vars(SweepSend(s))
                        /\ WF_vars(SweepMarkError(s))

(* The producer at work while the consumer service is still starting: its  *)
(* initKafka has not connected yet.  Storage stays up.                     *)
InitOffline ==
  /\ eventos = << >>
  /\ seq = 1
  /\ kafkaUp = TRUE
  /\ dbUp = TRUE
  /\ log = << >>
  /\ pc = [c \in Callers |-> "idle"]
  /\ body = [c \in Callers |-> ""]
  /\ txn = [c \in Callers |-> NoRow]
  /\ resp = [c \in Callers |-> NoResp]
  /\ spc = [s \in Sweeps |-> "idle"]
  /\ rows = [s \in Sweeps |-> << >>]
  /\ \E hadEventoId \in BOOLEAN : eventoIdColumn = InitDB(hadEventoId)
  /\ messages = << >>
  /\ offset = 0
  /\ messagesProcessed = 0
  /\ messagesErrors = 0
  /\ life = "up"
  /\ boot = [v \in Services |-> IF v = "consumer" THEN Booting
                                                   ELSE Connected]

NextOffline ==
  \/ KafkaStops
  \/ KafkaStarts
  \/ \E c \in Callers : SubmitInsert(c)
  \/ \E c \in Callers : SubmitSend(c)
  \/ \E c \in Callers : SubmitUpdate(c)
  \/ \E c \in Callers : SubmitCommit(c)
  \/ \E c \in Callers : SubmitRelease(c)
  \/ ConnectAttempt("consumer")
  \/ ConnectWait("consumer")
  \/ EachMessage

SpecOffline == InitOffline /\ [][NextOffline]_vars

(* Both services from the moment start() calls initKafka.  A connection     *)
(* attempt settles and the retry timer fires, hence the weak fairness.      *)
InitStart ==
  /\ eventos = << >>
  /\ seq = 1
  /\ kafkaUp \in BOOLEAN
  /\ dbUp = TRUE
  /\ log = << >>
  /\ pc = [c \in Callers |-> "idle"]
  /\ body = [c \in Callers |-> ""]
  /\ txn = [c \in Callers |-> NoRow]
  /\ resp = [c \in Callers |-> NoResp]
  /\ spc = [s \in Sweeps |-> "idle"]
  /\ rows = [s \in Sweeps |-> << >>]
  /\ \E hadEventoId \in BOOLEAN : eventoIdColumn = InitDB(hadEventoId)
  /\ messages = << >>
  /\ offset = 0
  /\ messagesProcessed = 0
  /\ messagesErrors = 0
  /\ life = "up"
  /\ boot = [v \in Services |-> Booting]

NextConnect ==
  \/ KafkaStops
  \/ KafkaStarts
  \/ \E v \in Services : ConnectAttempt(v)
  \/ \E v \in Services : ConnectWait(v)

SpecConnect ==
  /\ InitStart
  /\ [][NextConnect]_vars
  /\ \A v \in Services :
       WF_vars(ConnectAttempt(v)) /\ WF_vars(ConnectWait(v))

SpecStartup == InitStart /\ [][NextStartup]_vars

----------------------------------------------------------------------------
\* holds in the specifications that start in Init and draw every event from
\* a call
TypeOK ==
  /\ seq \in 1..(MaxEvents + 1)
  /\ DOMAIN eventos \subseteq 1..MaxEvents
  /\ Len(log) <= MaxLog
  /\ offset <= Len(log)
  /\ messagesProcessed + messagesErrors = offset

Ids(rs) == {rs[k].id : k \in 1..Len(rs)}

\* the call of c sends its response in this step
Responds(c) == pc[c] # "responded" /\ pc'[c] = "responded"

----------------------------------------------------------------------------
(* C1.  Sent is terminal: in every step, an event whose state is Sent (E)  *)
(* keeps that state and its number of attempts.                            *)
SentIsTerminal ==
  [][\A i \in DOMAIN eventos :
       eventos[i].procesado = "E"
         => /\ eventos'[i].procesado = "E"
            /\ eventos'[i].intentos = eventos[i].intentos]_vars

(* C2.  Idempotent consumption: table messages never holds two rows with   *)
(* the same evento_id.                                                      *)
OneMessagePerEvent ==
  \A i, j \in 1..Len(messages) :
    messages[i].evento_id = messages[j].evento_id => i = j

(* C3.  Single-flight: no event is among the rows still to be handled of   *)
(* two sweeps at the same time.                                            *)
SingleFlight ==
  \A s, t \in Sweeps : s # t => Ids(rows[s]) \cap Ids(rows[t]) = {}

(* C4.  Attempt cap: the attempts of an event never exceed 3, and no sweep *)
(* publishes an event whose attempts have reached 3.                       *)
AttemptCap ==
  /\ \A i \in DOMAIN eventos : eventos[i].intentos <= MaxIntentos
  /\ \A s \in Sweeps :
       spc[s] \in {"sent", "sendFailed"}
         => eventos[Head(rows[s]).id].intentos < MaxIntentos

(* C5.  Durability precedes publish: whenever a submit call is about to    *)
(* publish or has just published the envelope of its event, the event is   *)
(* a committed row of the store, visible to every reader.                  *)
DurableBeforePublish ==
  \A c \in Callers :
    pc[c] \in {"inserted", "published", "refused"}
      => txn[c].id \in DOMAIN eventos

(* C6.  Submit with the broker unreachable and storage working: the call   *)
(* goes on to record the failure and then answers with success (202, state *)
(* X); at that moment the store holds exactly one new event, the call's,   *)
(* with its content, state X, attempts 1 and the failure detail.           *)
BrokerDownSubmitRecorded ==
  [][\A c \in Callers :
       /\ (pc[c] = "refused" /\ dbUp /\ pc'[c] # pc[c])
            => pc'[c] = "markedX"
       /\ (pc[c] = "markedX" /\ dbUp /\ pc'[c] # pc[c])
            => /\ Responds(c)
               /\ resp'[c] = [status |-> 202, evento_id |-> txn[c].id,
                              estado |-> "X"]
               /\ txn[c].id \notin DOMAIN eventos
               /\ DOMAIN eventos' = DOMAIN eventos \cup {txn[c].id}
               /\ \A i \in DOMAIN eventos : eventos'[i] = eventos[i]
               /\ eventos'[txn[c].id].content = body[c]
               /\ eventos'[txn[c].id].procesado = "X"
               /\ eventos'[txn[c].id].intentos = 1
               /\ eventos'[txn[c].id].error_message = KafkaErr]_vars

BrokerDownSubmitSeen ==
  \E c \in Callers :
    /\ pc[c] = "responded"
    /\ resp[c].status = 202
    /\ body[c] # ""
    /\ resp[c].evento_id \in DOMAIN eventos
    /\ eventos[resp[c].evento_id].procesado = "X"
    /\ eventos[resp[c].evento_id].intentos = 1

(* C7.  Step 1 alone decides: a call whose INSERT succeeded answers with   *)
(* success and its event is in the store.                                  *)
InsertDecides ==
  \A c \in Callers :
    (pc[c] = "responded" /\ txn[c].id # 0)
      => Success(resp[c]) /\ txn[c].id \in DOMAIN eventos

(* C8.  The state in a successful response is the state the call           *)
(* committed for its event: E with no error message when the publish was   *)
(* accepted, X when it failed, never P.                                    *)
ResponseIsCommittedState ==
  [][\A c \in Callers :
       (Responds(c) /\ resp'[c].status \in {200, 202})
         => LET id == resp'[c].evento_id IN
            /\ id = txn[c].id
            /\ id \in DOMAIN eventos'
            /\ resp'[c].estado = eventos'[id].procesado
            /\ resp'[c].estado \in {"E", "X"}
            /\ (pc[c] = "markedE") = (resp'[c].estado = "E")
            /\ resp'[c].estado = "E"
                 => /\ eventos'[id].error_message = NULL
                    /\ \E k \in 1..Len(log) : log[k].evento_id = id]_vars

SentResponseSeen ==
  \E c \in Callers :
    /\ pc[c] = "responded"
    /\ resp[c].status = 200
    /\ resp[c].estado = "E"
    /\ eventos[resp[c].evento_id].procesado = "E"

(* C9.  Validation: a call without content answers 400 in its first step   *)
(* and that step changes neither the store nor the id sequence nor the     *)
(* topic; no row and no envelope ever carries an empty content.            *)
EmptyContentRejected ==
  [][/\ \A c \in Callers :
       (pc[c] = "idle" /\ pc'[c] # "idle" /\ body'[c] = "")
         => /\ pc'[c] = "responded"
            /\ resp'[c].status = 400
            /\ txn'[c] = txn[c]
            /\ UNCHANGED <<eventos, seq, log>>
     /\ \A i \in DOMAIN eventos' : eventos'[i].content # ""
     /\ \A k \in 1..Len(log') : log'[k].content # ""]_vars

EmptyContentSeen ==
  \E c \in Callers :
    pc[c] = "responded" /\ body[c] = "" /\ resp[c].status = 400

----------------------------------------------------------------------------
(* C14.  initKafka is bounded, in the producer and in the consumer: it      *)
(* makes at most 10 connection attempts; it returns only after an attempt   *)
(* succeeded; it throws only after exactly 10 failed attempts; once it has  *)
(* returned or thrown it makes no further attempt; and it always ends in    *)
(* one of the two.                                                          *)
ConnectEnded(v) == boot[v].st \in {"returned", "thrown"}

ConnectBounded ==
  /\ [](\A v \in Services :
          /\ boot[v].tries <= MaxRetries
          /\ boot[v].st = "returned" => boot[v].ok
          /\ boot[v].st = "thrown" =>
               boot[v].tries = MaxRetries /\ ~boot[v].ok
          /\ boot[v].ok => boot[v].st = "returned")
  /\ [][\A v \in Services : ConnectEnded(v) => boot'[v] = boot[v]]_vars
  /\ \A v \in Services : <>ConnectEnded(v)

\* the producer connected at its tenth attempt, the consumer gave up
ConnectGaveUp ==
  /\ boot["producer"].st = "returned"
  /\ boot["producer"].tries = MaxRetries
  /\ boot["consumer"].st = "thrown"

----------------------------------------------------------------------------
(* C13.  The attempts of an event never decrease: in every step, every      *)
(* committed event is still in the store with at least the attempts it had, *)
(* and a row a call holds in its transaction keeps or raises its attempts   *)
(* up to and including the COMMIT that writes it to the store.              *)
AttemptsNeverDecrease ==
  [][/\ \A i \in DOMAIN eventos :
          /\ i \in DOMAIN eventos'
          /\ eventos'[i].intentos >= eventos[i].intentos
      /\ \A c \in Callers :
          /\ txn[c].id # 0 /\ txn'[c].id = txn[c].id
               => txn'[c].intentos >= txn[c].intentos
          /\ txn[c].id # 0 /\ txn[c].id \in DOMAIN eventos'
               => eventos'[txn[c].id].intentos >= txn[c].intentos]_vars

\* an event that a call recorded with attempts 1 and a sweep raised to 2 is
\* about to be raised again by a sweep whose publish failed
AttemptsRoseTwice ==
  \E s \in Sweeps :
    /\ spc[s] = "sendFailed"
    /\ Head(rows[s]).id \in DOMAIN eventos
    /\ eventos[Head(rows[s]).id].intentos = 2
    /\ \E t \in Sweeps : t # s /\ spc[t] # "idle"

----------------------------------------------------------------------------
(* C16.  attempts counts failed publish tries: whenever the attempts of a   *)
(* committed event change, they grow by exactly 1, and the step is the      *)
(* write of a sweep whose publish of that event has just failed.            *)
AttemptsCountFailedPublishes ==
  [][\A i \in DOMAIN eventos :
       eventos'[i].intentos # eventos[i].intentos
         => /\ eventos'[i].intentos = eventos[i].intentos + 1
            /\ \E s \in Sweeps : /\ spc[s] = "sendFailed"
                                  /\ spc'[s] # spc[s]
                                  /\ Head(rows[s]).id = i]_vars

----------------------------------------------------------------------------
(* C19.  Compare-and-swap: a sweep's write changes an event only if the     *)
(* event is still as the sweep's SELECT saw it, that is in state P or X     *)
(* with fewer than 3 attempts; a write on an event that has been marked     *)
(* Sent or exhausted in the meantime has no effect.                         *)
StaleWriteHasNoEffect ==
  [][\A s \in Sweeps :
       (/\ spc[s] \in {"sent", "sendFailed", "updateFailed"}
        /\ spc'[s] # spc[s]
        /\ eventos'[Head(rows[s]).id] # eventos[Head(rows[s]).id])
         => /\ eventos[Head(rows[s]).id].procesado \in {"P", "X"}
            /\ eventos[Head(rows[s]).id].intentos < MaxIntentos]_vars

----------------------------------------------------------------------------
(* C20.  No race on a fresh event: while the call that created an event has *)
(* not yet committed the outcome of its own publish attempt, no sweep holds *)
(* the event among its selected rows, and the topic holds at most the one   *)
(* envelope the call itself published.                                      *)
InFlight(c) ==
  pc[c] \in {"inserted", "published", "refused", "markedE", "markedX"}

FreshEventNotSwept ==
  \A c \in Callers :
    InFlight(c) =>
      /\ \A s \in Sweeps : txn[c].id \notin Ids(rows[s])
      /\ Cardinality({k \in 1..Len(log) : log[k].evento_id = txn[c].id})
           <= (IF pc[c] \in {"published", "markedE"} THEN 1 ELSE 0)

\* a sweep has run its SELECT while a call holds a row whose failed publish
\* is recorded but not yet committed
SweepBesideFreshEvent ==
  \E c \in Callers, s \in Sweeps :
    /\ pc[c] = "markedX"
    /\ spc[s] = "send"
    /\ rows[s] # << >>

----------------------------------------------------------------------------
(* C17.  Sweep selection: the rows a sweep selects are at most 10, all      *)
(* different, each an event in state P or X with fewer than 3 attempts      *)
(* together with its content, in ascending order of created_at; every       *)
(* eligible event left out is newer than every selected one, and none is    *)
(* left out unless 10 are selected.                                         *)
SweepSelectsOldestEligible ==
  [][\A s \in Sweeps :
       (spc[s] = "idle" /\ spc'[s] = "send") =>
         LET R    == rows'[s]
             sel  == {R[k].id : k \in 1..Len(R)}
             elig == {i \in DOMAIN eventos :
                        /\ eventos[i].procesado \in {"P", "X"}
                        /\ eventos[i].intentos < MaxIntentos}
         IN  /\ Len(R) <= BatchLimit
             /\ Cardinality(sel) = Len(R)
             /\ sel \subseteq elig
             /\ \A k \in 1..Len(R) : R[k].content = eventos[R[k].id].content
             /\ \A k, l \in 1..Len(R) :
                  k < l => eventos[R[k].id].created_at
                             < eventos[R[l].id].created_at
             /\ \A i \in sel, j \in elig \ sel :
                  eventos[i].created_at < eventos[j].created_at
             /\ elig \ sel # {} => Len(R) = BatchLimit]_vars

\* a sweep has selected 10 of 11 eligible events, the first of them by
\* created_at and not by id
SelectedTenOfEleven ==
  /\ spc[1] = "send"
  /\ Len(rows[1]) = BatchLimit
  /\ rows[1][1].id > rows[1][2].id
  /\ Cardinality({i \in DOMAIN eventos :
                    /\ eventos[i].procesado = "X"
                    /\ eventos[i].intentos < MaxIntentos}) = BatchLimit + 1

----------------------------------------------------------------------------
(* C18.  No starvation: an event that is eligible for retry (state P or X,  *)
(* fewer than 3 attempts) is eventually the event a sweep is publishing,    *)
(* although more events are eligible than one sweep takes and further       *)
(* events arrive meanwhile.                                                 *)
Attempted(i) ==
  \E s \in Sweeps : /\ spc[s] \in {"sent", "sendFailed"}
                    /\ Head(rows[s]).id = i

EveryEligibleAttempted ==
  \A i \in 1..(Backlog + MaxLate) :
    (/\ i \in DOMAIN eventos
     /\ eventos[i].procesado \in {"P", "X"}
     /\ eventos[i].intentos < MaxIntentos) ~> Attempted(i)

\* the newest event of the backlog, left out by the first sweeps, is being
\* published while an event that arrived later waits
LastOfBacklogAttempted ==
  /\ Attempted(Backlog)
  /\ Backlog + 1 \in DOMAIN eventos
  /\ eventos[Backlog + 1].intentos = 1

----------------------------------------------------------------------------
(* C11.  End-to-end delivery: once a call has answered that its event was   *)
(* sent and the consumer has handled every envelope of the topic, the event *)
(* is in state E and table messages holds a row with its id.  Stated for a  *)
(* database whose table messages has the column evento_id.                  *)
DeliveredEndToEnd ==
  \A c \in Callers :
    (/\ eventoIdColumn
     /\ pc[c] = "responded"
     /\ resp[c].status = 200
     /\ offset = Len(log))
      => /\ resp[c].evento_id \in DOMAIN eventos
         /\ eventos[resp[c].evento_id].procesado = "E"
         /\ \E k \in 1..Len(messages) :
              messages[k].evento_id = resp[c].evento_id

----------------------------------------------------------------------------
(* C12.  Retry recovery: once an event whose submit failed has been marked  *)
(* E by a sweep and the consumer has handled every envelope of the topic,   *)
(* table messages holds a row with the event's id and content.              *)
RetryRecovered ==
  \A i \in DOMAIN eventos :
    (/\ eventos[i].procesado = "E"
     /\ eventos[i].intentos >= 1
     /\ offset = Len(log))
      => \E k \in 1..Len(messages) :
           /\ messages[k].evento_id = i
           /\ messages[k].content = eventos[i].content

----------------------------------------------------------------------------
(* C15.  Backlog consumption: once the consumer runs and has nothing left   *)
(* to fetch, every envelope of the topic has been handed to eachMessage,    *)
(* also those published before the consumer started.                        *)
BacklogConsumed ==
  (Running("consumer") /\ offset = Len(log))
    => messagesProcessed + messagesErrors = Len(log)

----------------------------------------------------------------------------
(* C25.  Frame of the operations on events: no step removes an event or     *)
(* changes its id, content or creation time; every row is stored under its  *)
(* own id, so ids are unique and their set only grows; a step of a sweep    *)
(* creates no event and changes no row other than the one the sweep has     *)
(* selected and is handling.                                                *)
SweepSteps(s) == spc'[s] # spc[s] \/ rows'[s] # rows[s]

SweepFrame ==
  [][/\ \A i \in DOMAIN eventos :
          /\ i \in DOMAIN eventos'
          /\ eventos'[i].id = eventos[i].id
          /\ eventos'[i].content = eventos[i].content
          /\ eventos'[i].created_at = eventos[i].created_at
     /\ \A i \in DOMAIN eventos' : eventos'[i].id = i
     /\ \A s \in Sweeps :
          SweepSteps(s) =>
            /\ DOMAIN eventos' = DOMAIN eventos
            /\ \A i \in DOMAIN eventos :
                 eventos'[i] # eventos[i] =>
                   rows[s] # << >> /\ Head(rows[s]).id = i]_vars

\* a sweep that selected two events has recorded a failed publish of the
\* first and is handling the second, which it has not changed
SweepChangedOneRow ==
  \E s \in Sweeps :
    /\ Len(rows[s]) = 1
    /\ spc[s] = "send"
    /\ DOMAIN eventos = {1, 2}
    /\ Head(rows[s]).id = 2
    /\ eventos[1].intentos = 2
    /\ eventos[2].intentos = 1

----------------------------------------------------------------------------
(* C26.  Field consistency: an event in state E has no error message; an    *)
(* event in state X has at least one attempt and an error message.          *)
FieldsConsistent ==
  \A i \in DOMAIN eventos :
    /\ eventos[i].procesado = "E" => eventos[i].error_message = NULL
    /\ eventos[i].procesado = "X" =>
         eventos[i].intentos >= 1 /\ eventos[i].error_message # NULL

\* a sweep has marked E an event whose earlier publishes had failed, while
\* another event is in state X
SentAfterErrorSeen ==
  \E i, j \in DOMAIN eventos :
    /\ eventos[i].procesado = "E"
    /\ eventos[i].intentos >= 1
    /\ eventos[j].procesado = "X"
    /\ eventos[j].intentos >= 2

----------------------------------------------------------------------------
(* C27.  A failed submission leaves nothing on the broker: every envelope   *)
(* of the topic refers to a stored event, or to the event of a call that    *)
(* has not answered yet.                                                    *)
FailedSubmitLeavesNothing ==
  \A k \in 1..Len(log) :
    \/ log[k].evento_id \in DOMAIN eventos
    \/ \E c \in Callers : InFlight(c) /\ txn[c].id = log[k].evento_id

----------------------------------------------------------------------------
(* C28.  Sweep under storage failure: when the write that records a failed  *)
(* try fails itself, the sweep ends in that step: it is idle again, so the  *)
(* next tick can start a new one, it handles none of the rows it had still  *)
(* to handle, and no event and no envelope is changed.                      *)
SweepEndsOnStorageFailure ==
  [][\A s \in Sweeps :
       (spc[s] \in {"sendFailed", "updateFailed"} /\ ~dbUp /\ SweepSteps(s))
         => /\ spc'[s] = "idle"
            /\ rows'[s] = << >>
            /\ eventos' = eventos
            /\ log' = log]_vars

\* a sweep has published event 1, failed to record either outcome and ended:
\* events 1 and 2 are as they were, event 2 was not tried
SweepEndedEarly ==
  /\ ~dbUp
  /\ \A s \in Sweeps : spc[s] = "idle"
  /\ DOMAIN eventos = {1, 2}
  /\ \A i \in {1, 2} : eventos[i].procesado = "X" /\ eventos[i].intentos = 1
  /\ log = <<Envelope(1, eventos[1].content)>>

----------------------------------------------------------------------------
(* C22.  Consumer error accounting: a step that takes an envelope takes     *)
(* the next one of the topic and adds 1 to exactly one counter: to the      *)
(* processed count together with a new row in messages holding the          *)
(* envelope's data, or to the error count with messages unchanged; no       *)
(* other step changes the counters, the table or the position, so an        *)
(* envelope whose handling failed is not handed over again.                 *)
Stored(data) == [content |-> data.content, evento_id |-> data.evento_id]

OneCounterPerMessage ==
  [][IF offset' # offset
       THEN /\ offset' = offset + 1
            /\ \/ /\ messagesProcessed' = messagesProcessed + 1
                  /\ messagesErrors' = messagesErrors
                  /\ messages' = Append(messages, Stored(log[offset + 1]))
               \/ /\ messagesErrors' = messagesErrors + 1
                  /\ messagesProcessed' = messagesProcessed
                  /\ messages' = messages
       ELSE UNCHANGED <<messagesProcessed, messagesErrors, messages>>]_vars

\* the handling of the first envelope failed, the consumer went on and
\* stored the second
ErrorThenProcessed ==
  /\ offset = 2
  /\ messagesErrors = 1
  /\ messagesProcessed = 1
  /\ messages = <<Stored(log[2])>>
  /\ log[1].evento_id # log[2].evento_id

----------------------------------------------------------------------------
(* C21.  Startup ordering: as long as the producer's connect has not        *)
(* succeeded (it is being tried, waited for, or has failed for good), no    *)
(* call has been taken, no sweep has started, nothing was published and no  *)
(* event was stored; so a publish never runs beside a connection attempt.   *)
ProducerStarted == boot["producer"].st = "returned" /\ boot["producer"].ok

NothingBeforeConnect ==
  ~ProducerStarted
    => /\ \A c \in Callers : pc[c] = "idle" /\ resp[c] = NoResp
       /\ \A s \in Sweeps : spc[s] = "idle"
       /\ log = << >>
       /\ eventos = << >>
       /\ seq = 1

\* the producer connected at its third attempt; since then a call has
\* published its event and a sweep is publishing an earlier one
PublishedAfterLateConnect ==
  /\ boot["producer"].tries = 3
  /\ ProducerStarted
  /\ pc[1] = "published"
  /\ spc[1] = "sent"

----------------------------------------------------------------------------
(* C23.  Every row of table messages carries the id of a stored event and   *)
(* that event's content, whether its envelope was published by a call or    *)
(* by a sweep.                                                              *)
MessagesMatchEvents ==
  \A k \in 1..Len(messages) :
    /\ messages[k].evento_id \in DOMAIN eventos
    /\ messages[k].content = eventos[messages[k].evento_id].content

\* two rows of different content: the first from the envelope a sweep
\* published for an event whose submit had failed, the second from the
\* envelope of a call
MessagesFromBothPaths ==
  /\ Len(messages) = 2
  /\ messages[1].content # messages[2].content
  /\ eventos[messages[1].evento_id].intentos = 1
  /\ eventos[messages[2].evento_id].intentos = 0

----------------------------------------------------------------------------
(* C24.  Graceful shutdown drains in-flight work: once the producer has     *)
(* exited, every envelope the broker accepted belongs to a stored event in  *)
(* state E.                                                                 *)
ShutdownDrained ==
  life = "exited"
    => \A k \in 1..Len(log) :
         /\ log[k].evento_id \in DOMAIN eventos
         /\ eventos[log[k].evento_id].procesado = "E"

============================================================================
